---- MODULE Spec2Model ----
(***************************************************************************)
(* Model of package rwb (src/rwb.go): ResponseWriterBuffer, a wrapper of   *)
(* an http.ResponseWriter (the "sink") that stages header, status and body *)
(* locally and publishes them to the sink in Flush.                        *)
(*                                                                         *)
(* The sink is modelled as a recording http.ResponseWriter: its header map *)
(* (a Go map[string][]string), the log of status codes passed to its       *)
(* WriteHeader, the bytes its Write accepted and the outcome of each of    *)
(* its Write calls (accepted, or refused with an error).                   *)
(* Code outside the buffer may change the sink's header map at any time.   *)
(***************************************************************************)
EXTENDS Integers, Sequences, FiniteSets, TLC

(***************************************************************************)
(* Bounds of the model.                                                    *)
(***************************************************************************)
\* number of header-map mutations after New (local and external together)
MaxHeaderOps == 1
\* number of body writes the sink refuses in one run
MaxFails == 1

(***************************************************************************)
(* Input domains.                                                          *)
(***************************************************************************)
\* Header keys are strings, modelled as sequences of characters.  KeyXa is
\* in canonical MIME form, KeyxA is another spelling of the same header
\* (it enters a map only by direct assignment, h[key] = vs).
KeyXa == <<"X", "a">>
KeyxA == <<"x", "A">>
Keys == {KeyXa, KeyxA}
Vals == {"a", "b"}
\* byte payloads
Payloads == {<<>>, <<1>>, <<2>>}
\* status codes, 0 being the "unset" value of New
Codes == {0, 200, 404}
\* value lists a caller assigns directly to a map entry: h[key] = vs
AssignLists == {<<"a">>, <<"b">>}
\* value lists the sink's map may hold under a key when the buffer is made
StartLists == {<<"a">>, <<"a", "b">>}

NoErr == "nil"
ErrBufferClosed == "buffer closed"
\* the error a failing sink returns from Write
ErrSink == "sink error"
\* value of lastWrite while no Write has been accepted
NoWrite == <<-1>>

VARIABLES
    constructed,  \* New has run
    sinkHeader,   \* the sink's header map: rw.ResponseWriter.Header()
    sinkStatus,   \* codes passed to the sink's WriteHeader, in call order
    sinkBody,     \* the bytes the sink's Write has accepted
    sinkWrites,   \* the sink's Write calls, in call order: TRUE if accepted
    header,       \* rw.header
    body,         \* rw.body (contents of the bytes.Buffer)
    statusCode,   \* rw.statusCode
    closed,       \* rw.closed
    op,           \* the operation that produced this state
    retN,         \* the (int) result of the last Write or Flush
    retErr,       \* the (error) result of the last Write or Flush
    sinkAtNew,    \* history: the sink's header map when New ran
    lastWrite,    \* history: payload of the last accepted Write, or NoWrite
    hdrOps,       \* history: number of header-map mutations so far
    extMut,       \* history: outside code changed the sink's map after New
    localMut,     \* history: the map returned by Header() was changed
    lastCode,     \* history: argument of the last WriteHeader call, 0 if none
    calls         \* the calls the last operation made on the sink, in order

vars == <<constructed, sinkHeader, sinkStatus, sinkBody, sinkWrites, header, body,
          statusCode, closed, op, retN, retErr, sinkAtNew, lastWrite,
          hdrOps, extMut, localMut, lastCode, calls>>

(***************************************************************************)
(* Go maps: a function whose domain is the set of keys present.            *)
(***************************************************************************)
EmptyMap == [k \in {} |-> <<>>]
MapPut(h, k, vs) == [x \in (DOMAIN h) \cup {k} |-> IF x = k THEN vs ELSE h[x]]
MapDelete(h, k) == [x \in (DOMAIN h) \ {k} |-> h[x]]
MapGet(h, k) == IF k \in DOMAIN h THEN h[k] ELSE <<>>

Range(s) == {s[i] : i \in DOMAIN s}

(***************************************************************************)
(* textproto.CanonicalMIMEHeaderKey: the first letter and every letter     *)
(* after a hyphen in upper case, every other letter in lower case.         *)
(***************************************************************************)
ToUpper(c) == CASE c = "x" -> "X" [] c = "y" -> "Y" [] c = "a" -> "A" [] OTHER -> c
ToLower(c) == CASE c = "X" -> "x" [] c = "Y" -> "y" [] c = "A" -> "a" [] OTHER -> c
CanonicalMIMEHeaderKey(s) ==
    [i \in DOMAIN s |-> IF i = 1 \/ s[i - 1] = "-" THEN ToUpper(s[i]) ELSE ToLower(s[i])]

(***************************************************************************)
(* http.Header methods.                                                    *)
(***************************************************************************)
Values(h, key) == MapGet(h, CanonicalMIMEHeaderKey(key))
Add(h, key, value) ==
    MapPut(h, CanonicalMIMEHeaderKey(key), Append(Values(h, key), value))
Set(h, key, value) == MapPut(h, CanonicalMIMEHeaderKey(key), <<value>>)
Del(h, key) == MapDelete(h, CanonicalMIMEHeaderKey(key))
\* a variant of Clone for a buffer that starts from an empty header map
CloneEmpty(h) == EmptyMap

Clone(h) == [k \in DOMAIN h |-> h[k]]

(***************************************************************************)
(* bytes.Buffer, as used by Write: Reset empties it, Write appends.        *)
(***************************************************************************)
\* a variant of BufferReset that keeps the contents
BufferResetKeeps(b) == b

BufferReset(b) == <<>>
BufferWrite(b, p) == b \o p

(***************************************************************************)
(* Go's range over a map visits the keys in an unspecified order; a key    *)
(* deleted before it is reached is not visited.                            *)
(***************************************************************************)
Orders(S) == {s \in [1..Cardinality(S) -> S] : Range(s) = S}

\* a variant of DeleteIfMissing that deletes nothing
DeleteIfMissingNever(actualHeader, local, key) == actualHeader

\* rwb.go:62-66, one iteration: a key of the sink the clone lacks is deleted
DeleteIfMissing(actualHeader, local, key) ==
    IF key \in DOMAIN actualHeader /\ key \notin DOMAIN local
    THEN Del(actualHeader, key)
    ELSE actualHeader

\* rwb.go:62-66, the loop over the sink's keys in the order given
RECURSIVE DeleteMissing(_, _, _)
DeleteMissing(actualHeader, local, order) ==
    IF order = <<>> THEN actualHeader
    ELSE DeleteMissing(DeleteIfMissing(actualHeader, local, Head(order)),
                       local, Tail(order))

\* a variant of MergeValue that looks for the key, not for the value
MergeValueKeyOnly(actualHeader, key, value) ==
    IF Values(actualHeader, key) # <<>>
    THEN actualHeader
    ELSE Add(actualHeader, key, value)

\* rwb.go:70-80: a value is added unless the sink's values of the key hold it
MergeValue(actualHeader, key, value) ==
    IF value \in Range(Values(actualHeader, key))
    THEN actualHeader
    ELSE Add(actualHeader, key, value)

\* a variant of MergeValues that stops after the first value of the key
MergeValuesFirstOnly(actualHeader, key, values) ==
    IF values = <<>> THEN actualHeader
    ELSE MergeValue(actualHeader, key, Head(values))

\* rwb.go:69-81, the loop over the values of one key of the clone
RECURSIVE MergeValues(_, _, _)
MergeValues(actualHeader, key, values) ==
    IF values = <<>> THEN actualHeader
    ELSE MergeValues(MergeValue(actualHeader, key, Head(values)), key, Tail(values))

\* rwb.go:68-82, the loop over the clone's keys in the order given
RECURSIVE MergeKeys(_, _, _)
MergeKeys(actualHeader, local, order) ==
    IF order = <<>> THEN actualHeader
    ELSE MergeKeys(MergeValues(actualHeader, Head(order), local[Head(order)]),
                   local, Tail(order))

\* rwb.go:60-82: the header reconciliation of Flush
MergeHeader(actualHeader, local, delOrder, addOrder) ==
    MergeKeys(DeleteMissing(actualHeader, local, delOrder), local, addOrder)

\* rwb.go:84-86: the sink's WriteHeader is called unless the code is 0
ApplyStatus(log, code) == IF code # 0 THEN Append(log, code) ELSE log

\* one call on the sink: the method and its argument (as a sequence)
SinkCall(method, arg) == <<method, arg>>

\* a variant of FlushCalls that sets the status before it takes the header map
FlushCallsStatusFirst(code, payload) ==
    (IF code # 0 THEN <<SinkCall("WriteHeader", <<code>>)>> ELSE <<>>)
    \o <<SinkCall("Header", <<>>)>>
    \o <<SinkCall("Write", payload)>>

\* rwb.go:61-87: the calls Flush makes on the sink, in the order of its
\* statements: Header() (whose map the two loops then reconcile), WriteHeader
\* unless the code is 0, Write
FlushCalls(code, payload) ==
    <<SinkCall("Header", <<>>)>>
    \o (IF code # 0 THEN <<SinkCall("WriteHeader", <<code>>)>> ELSE <<>>)
    \o <<SinkCall("Write", payload)>>

(***************************************************************************)
(* Initial state: no buffer constructed yet; the sink's header map holds   *)
(* whatever the code that ran before put there, under any spelling.        *)
(***************************************************************************)
StartHeaders == UNION {[D -> StartLists] : D \in SUBSET Keys}

Init ==
    /\ constructed = FALSE
    /\ sinkHeader \in StartHeaders
    /\ sinkStatus = <<>>
    /\ sinkBody = <<>>
    /\ sinkWrites = <<>>
    /\ header = EmptyMap
    /\ body = <<>>
    /\ statusCode = 0
    /\ closed = FALSE
    /\ op = "init"
    /\ retN = 0
    /\ retErr = NoErr
    /\ sinkAtNew = EmptyMap
    /\ lastWrite = NoWrite
    /\ hdrOps = 0
    /\ extMut = FALSE
    /\ localMut = FALSE
    /\ lastCode = 0
    /\ calls = <<>>

bufferVars == <<header, body, statusCode, closed>>
sinkVars == <<sinkHeader, sinkStatus, sinkBody, sinkWrites>>

(***************************************************************************)
(* Code outside the buffer changing the sink's header map, at any time,    *)
(* before New as well as after the commit: w.Header().Add(key, value),     *)
(* w.Header()[key] = vs.                                                   *)
(***************************************************************************)
External(h) ==
    /\ calls' = <<>>
    /\ hdrOps < MaxHeaderOps
    /\ sinkHeader' = h
    /\ hdrOps' = hdrOps + 1
    /\ extMut' = (extMut \/ constructed)
    /\ op' = "External"
    /\ retN' = 0
    /\ retErr' = NoErr
    /\ UNCHANGED <<constructed, sinkStatus, sinkBody, sinkWrites, bufferVars, sinkAtNew, lastCode,
                   lastWrite, localMut>>

SinkAdd(key, value) == External(Add(sinkHeader, key, value))
SinkAssign(key, vs) == External(MapPut(sinkHeader, key, vs))

(***************************************************************************)
(* New (rwb.go:96-103).                                                    *)
(***************************************************************************)
New ==
    /\ ~constructed
    /\ constructed' = TRUE
    /\ header' = Clone(sinkHeader)
    /\ body' = <<>>
    /\ statusCode' = 0
    /\ closed' = FALSE
    /\ sinkAtNew' = sinkHeader
    /\ op' = "New"
    /\ retN' = 0
    /\ retErr' = NoErr
    /\ calls' = <<SinkCall("Header", <<>>)>>
    /\ UNCHANGED <<sinkVars, lastWrite, hdrOps, extMut, localMut, lastCode>>

\* a variant of Header for a buffer whose header is the sink's own map
\* (New without Clone): a change of the one is a change of the other
HeaderAliased(h) ==
    /\ constructed
    /\ calls' = <<>>
    /\ hdrOps < MaxHeaderOps
    /\ header' = h
    /\ sinkHeader' = h
    /\ hdrOps' = hdrOps + 1
    /\ localMut' = TRUE
    /\ op' = "Header"
    /\ retN' = 0
    /\ retErr' = NoErr
    /\ UNCHANGED <<constructed, sinkStatus, sinkBody, sinkWrites, body, statusCode,
                   closed, sinkAtNew, lastCode, lastWrite, extMut>>

(***************************************************************************)
(* Header (rwb.go:36-38) returns rw.header itself, with no look at         *)
(* rw.closed; the caller changes it with the http.Header methods or as a   *)
(* plain map, before the commit or after it.                               *)
(***************************************************************************)
Header(h) ==
    /\ constructed
    /\ calls' = <<>>
    /\ hdrOps < MaxHeaderOps
    /\ header' = h
    /\ hdrOps' = hdrOps + 1
    /\ localMut' = TRUE
    /\ op' = "Header"
    /\ retN' = 0
    /\ retErr' = NoErr
    /\ UNCHANGED <<constructed, sinkVars, body, statusCode, closed, sinkAtNew, lastCode,
                   lastWrite, extMut>>

HeaderAdd(key, value) == Header(Add(header, key, value))
HeaderSet(key, value) == Header(Set(header, key, value))
HeaderDel(key) == Header(Del(header, key))
HeaderAssign(key, vs) == Header(MapPut(header, key, vs))
HeaderDelete(key) == Header(MapDelete(header, key))

\* a variant of Write without the test of rw.closed
WriteNoClosedCheck(p) ==
    /\ constructed
    /\ calls' = <<>>
    /\ op' = "Write"
    /\ body' = BufferWrite(BufferReset(body), p)
    /\ retN' = Len(p)
    /\ retErr' = NoErr
    /\ lastWrite' = p
    /\ UNCHANGED <<constructed, sinkVars, header, statusCode, closed, sinkAtNew, lastCode,
                   hdrOps, extMut, localMut>>

(***************************************************************************)
(* Write (rwb.go:41-47).                                                   *)
(***************************************************************************)
Write(p) ==
    /\ constructed
    /\ calls' = <<>>
    /\ op' = "Write"
    /\ IF closed
       THEN /\ retN' = 0
            /\ retErr' = ErrBufferClosed
            /\ UNCHANGED <<body, lastWrite>>
       ELSE /\ body' = BufferWrite(BufferReset(body), p)
            /\ retN' = Len(p)
            /\ retErr' = NoErr
            /\ lastWrite' = p
    /\ UNCHANGED <<constructed, sinkVars, header, statusCode, closed, sinkAtNew, lastCode,
                   hdrOps, extMut, localMut>>

\* a variant of WriteHeader that keeps the first non-zero code it was given
WriteHeaderFirstWins(code) ==
    /\ constructed
    /\ calls' = <<>>
    /\ statusCode' = (IF statusCode = 0 THEN code ELSE statusCode)
    /\ lastCode' = code
    /\ op' = "WriteHeader"
    /\ retN' = 0
    /\ retErr' = NoErr
    /\ UNCHANGED <<constructed, sinkVars, header, body, closed, sinkAtNew,
                   lastWrite, hdrOps, extMut, localMut>>

(***************************************************************************)
(* WriteHeader (rwb.go:50-52): no result, no look at rw.closed.            *)
(***************************************************************************)
WriteHeader(code) ==
    /\ constructed
    /\ calls' = <<>>
    /\ statusCode' = code
    /\ lastCode' = code
    /\ op' = "WriteHeader"
    /\ retN' = 0
    /\ retErr' = NoErr
    /\ UNCHANGED <<constructed, sinkVars, header, body, closed, sinkAtNew,
                   lastWrite, hdrOps, extMut, localMut>>

(***************************************************************************)
(* Flush (rwb.go:56-93).  sinkOk is the outcome of the sink's Write.       *)
(***************************************************************************)
Fails == Cardinality({i \in DOMAIN sinkWrites : ~sinkWrites[i]})

\* a variant of FlushClosed that reports no error
FlushClosedNilError ==
    /\ calls' = <<>>
    /\ retN' = 0
    /\ retErr' = NoErr
    /\ UNCHANGED <<sinkVars, closed>>

\* rwb.go:57-59
FlushClosed ==
    /\ calls' = <<>>
    /\ retN' = 0
    /\ retErr' = ErrBufferClosed
    /\ UNCHANGED <<sinkVars, closed>>

\* a variant of FlushOpen that sets rw.closed before the sink's Write returns
FlushOpenClosesFirst(delOrder, addOrder, sinkOk) ==
    /\ calls' = FlushCalls(statusCode, body)
    /\ sinkHeader' = MergeHeader(sinkHeader, header, delOrder, addOrder)
    /\ sinkStatus' = ApplyStatus(sinkStatus, statusCode)
    /\ sinkWrites' = Append(sinkWrites, sinkOk)
    /\ closed' = TRUE
    /\ IF sinkOk
       THEN /\ sinkBody' = sinkBody \o body
            /\ retN' = Len(body)
            /\ retErr' = NoErr
       ELSE /\ sinkBody' = sinkBody
            /\ retN' = 0
            /\ retErr' = ErrSink

\* a variant of FlushOpen that undoes its header and status changes when the
\* sink's Write fails
FlushOpenRollsBack(delOrder, addOrder, sinkOk) ==
    /\ calls' = FlushCalls(statusCode, body)
    /\ sinkWrites' = Append(sinkWrites, sinkOk)
    /\ IF sinkOk
       THEN /\ sinkHeader' = MergeHeader(sinkHeader, header, delOrder, addOrder)
            /\ sinkStatus' = ApplyStatus(sinkStatus, statusCode)
            /\ sinkBody' = sinkBody \o body
            /\ closed' = TRUE
            /\ retN' = Len(body)
            /\ retErr' = NoErr
       ELSE /\ sinkHeader' = sinkHeader
            /\ sinkStatus' = sinkStatus
            /\ sinkBody' = sinkBody
            /\ closed' = closed
            /\ retN' = 0
            /\ retErr' = ErrSink

\* a variant of FlushOpen that ignores the error of the sink's Write
FlushOpenIgnoresError(delOrder, addOrder, sinkOk) ==
    /\ calls' = FlushCalls(statusCode, body)
    /\ sinkHeader' = MergeHeader(sinkHeader, header, delOrder, addOrder)
    /\ sinkStatus' = ApplyStatus(sinkStatus, statusCode)
    /\ sinkWrites' = Append(sinkWrites, sinkOk)
    /\ closed' = TRUE
    /\ retErr' = NoErr
    /\ IF sinkOk
       THEN /\ sinkBody' = sinkBody \o body
            /\ retN' = Len(body)
       ELSE /\ sinkBody' = sinkBody
            /\ retN' = 0

\* a variant of FlushOpen that drops the sink's byte count and returns 0
FlushOpenReturnsZero(delOrder, addOrder, sinkOk) ==
    /\ calls' = FlushCalls(statusCode, body)
    /\ sinkHeader' = MergeHeader(sinkHeader, header, delOrder, addOrder)
    /\ sinkStatus' = ApplyStatus(sinkStatus, statusCode)
    /\ sinkWrites' = Append(sinkWrites, sinkOk)
    /\ retN' = 0
    /\ IF sinkOk
       THEN /\ sinkBody' = sinkBody \o body
            /\ closed' = TRUE
            /\ retErr' = NoErr
       ELSE /\ sinkBody' = sinkBody
            /\ closed' = closed
            /\ retErr' = ErrSink

\* rwb.go:60-92
FlushOpen(delOrder, addOrder, sinkOk) ==
    /\ calls' = FlushCalls(statusCode, body)
    /\ sinkHeader' = MergeHeader(sinkHeader, header, delOrder, addOrder)
    /\ sinkStatus' = ApplyStatus(sinkStatus, statusCode)
    /\ sinkWrites' = Append(sinkWrites, sinkOk)
    /\ IF sinkOk
       THEN /\ sinkBody' = sinkBody \o body
            /\ closed' = TRUE
            /\ retN' = Len(body)
            /\ retErr' = NoErr
       ELSE /\ sinkBody' = sinkBody
            /\ closed' = closed
            /\ retN' = 0
            /\ retErr' = ErrSink

\* a variant of Flush without the test of rw.closed
FlushNoClosedCheck(delOrder, addOrder, sinkOk) ==
    /\ constructed
    /\ sinkOk \/ Fails < MaxFails
    /\ op' = "Flush"
    /\ FlushOpen(delOrder, addOrder, sinkOk)
    /\ UNCHANGED <<constructed, header, body, statusCode, sinkAtNew, lastCode, lastWrite,
                   hdrOps, extMut, localMut>>

Flush(delOrder, addOrder, sinkOk) ==
    /\ constructed
    /\ sinkOk \/ Fails < MaxFails
    /\ op' = "Flush"
    /\ IF closed THEN FlushClosed ELSE FlushOpen(delOrder, addOrder, sinkOk)
    /\ UNCHANGED <<constructed, header, body, statusCode, sinkAtNew, lastCode, lastWrite,
                   hdrOps, extMut, localMut>>

Next ==
    \/ \E key \in Keys, value \in Vals : SinkAdd(key, value)
    \/ \E key \in Keys, vs \in AssignLists : SinkAssign(key, vs)
    \/ New
    \/ \E key \in Keys, value \in Vals : HeaderAdd(key, value)
    \/ \E key \in Keys, value \in Vals : HeaderSet(key, value)
    \/ \E key \in Keys : HeaderDel(key)
    \/ \E key \in Keys, vs \in AssignLists : HeaderAssign(key, vs)
    \/ \E key \in Keys : HeaderDelete(key)
    \/ \E p \in Payloads : Write(p)
    \/ \E code \in Codes : WriteHeader(code)
    \/ \E delOrder \in Orders(DOMAIN sinkHeader), addOrder \in Orders(DOMAIN header),
          sinkOk \in BOOLEAN : Flush(delOrder, addOrder, sinkOk)

Spec == Init /\ [][Next]_vars

(***************************************************************************)
(* The same program over three spellings of one header: Keyxa is a second  *)
(* spelling that is not in canonical form.  The sink's header map starts   *)
(* with any of the three keys, each with one value.                        *)
(***************************************************************************)
Keyxa == <<"x", "a">>
KeysThree == Keys \cup {Keyxa}
StartHeadersThree == UNION {[D -> AssignLists] : D \in SUBSET KeysThree}

InitThree ==
    /\ constructed = FALSE
    /\ sinkHeader \in StartHeadersThree
    /\ sinkStatus = <<>>
    /\ sinkBody = <<>>
    /\ sinkWrites = <<>>
    /\ header = EmptyMap
    /\ body = <<>>
    /\ statusCode = 0
    /\ closed = FALSE
    /\ op = "init"
    /\ retN = 0
    /\ retErr = NoErr
    /\ sinkAtNew = EmptyMap
    /\ lastWrite = NoWrite
    /\ hdrOps = 0
    /\ extMut = FALSE
    /\ localMut = FALSE
    /\ lastCode = 0
    /\ calls = <<>>

NextThree ==
    \/ \E key \in KeysThree, value \in Vals : SinkAdd(key, value)
    \/ \E key \in KeysThree, vs \in AssignLists : SinkAssign(key, vs)
    \/ New
    \/ \E key \in KeysThree, value \in Vals : HeaderAdd(key, value)
    \/ \E key \in KeysThree, value \in Vals : HeaderSet(key, value)
    \/ \E key \in KeysThree : HeaderDel(key)
    \/ \E key \in KeysThree, vs \in AssignLists : HeaderAssign(key, vs)
    \/ \E key \in KeysThree : HeaderDelete(key)
    \/ \E p \in Payloads : Write(p)
    \/ \E code \in Codes : WriteHeader(code)
    \/ \E delOrder \in Orders(DOMAIN sinkHeader), addOrder \in Orders(DOMAIN header),
          sinkOk \in BOOLEAN : Flush(delOrder, addOrder, sinkOk)

SpecThree == InitThree /\ [][NextThree]_vars

(***************************************************************************)
(* The same program from the moment outside code has made one change to    *)
(* the sink's header map after New: the buffer is open and untouched, its  *)
(* local map is the snapshot.  The header-map mutations counted by hdrOps  *)
(* are those that follow.  The body and the status code play no part in    *)
(* the reconciliation of the header maps: one payload and one code.        *)
(***************************************************************************)
ExternalChanges(h) ==
    {Add(h, key, value) : key \in Keys, value \in Vals}
    \cup {MapPut(h, key, vs) : key \in Keys, vs \in AssignLists}

InitMerge ==
    /\ constructed = TRUE
    /\ sinkAtNew \in StartHeaders
    /\ sinkHeader \in ExternalChanges(sinkAtNew)
    /\ sinkStatus = <<>>
    /\ sinkBody = <<>>
    /\ sinkWrites = <<>>
    /\ header = Clone(sinkAtNew)
    /\ body = <<>>
    /\ statusCode = 0
    /\ closed = FALSE
    /\ op = "External"
    /\ retN = 0
    /\ retErr = NoErr
    /\ lastWrite = NoWrite
    /\ hdrOps = 0
    /\ extMut = TRUE
    /\ localMut = FALSE
    /\ lastCode = 0
    /\ calls = <<>>

NextMerge ==
    \/ \E key \in Keys, value \in Vals : SinkAdd(key, value)
    \/ \E key \in Keys, vs \in AssignLists : SinkAssign(key, vs)
    \/ \E key \in Keys, value \in Vals : HeaderAdd(key, value)
    \/ \E key \in Keys, value \in Vals : HeaderSet(key, value)
    \/ \E key \in Keys : HeaderDel(key)
    \/ \E key \in Keys, vs \in AssignLists : HeaderAssign(key, vs)
    \/ \E key \in Keys : HeaderDelete(key)
    \/ Write(<<1>>)
    \/ WriteHeader(200)
    \/ \E delOrder \in Orders(DOMAIN sinkHeader), addOrder \in Orders(DOMAIN header),
          sinkOk \in BOOLEAN : Flush(delOrder, addOrder, sinkOk)

SpecMerge == InitMerge /\ [][NextMerge]_vars

(***************************************************************************)
(* Vocabulary of the properties.                                           *)
(***************************************************************************)
\* the last operation was a Flush that returned a nil error
FlushSucceeded == op = "Flush" /\ retErr = NoErr
\* Flush has not run: every Flush on an open buffer calls the sink's Write,
\* and a buffer is closed only by a Flush
FlushNeverCalled == sinkWrites = <<>>
\* the set of values a map holds under exactly this key
ValueSet(h, key) == Range(MapGet(h, key))
\* the set of values the http.Header lookup finds for this key
LookupSet(h, key) == Range(Values(h, key))
AllCanonical(h) == \A k \in DOMAIN h : CanonicalMIMEHeaderKey(k) = k
\* the values the local map holds under any spelling of the canonical key
LocalValuesFor(canonical) ==
    UNION {Range(header[k]) : k \in {x \in DOMAIN header : CanonicalMIMEHeaderKey(x) = canonical}}

(***************************************************************************)
(* C1.  Last write wins: after one or more accepted Write calls and a      *)
(* successful Flush, the bytes the sink accepted are exactly the payload   *)
(* of the most recent Write.                                               *)
(***************************************************************************)
C1_LastWriteWins ==
    (FlushSucceeded /\ lastWrite # NoWrite) => sinkBody = lastWrite

C1_Witness ==
    FlushSucceeded /\ lastWrite = <<2>> /\ sinkBody = <<2>>

(***************************************************************************)
(* C2.  Staging is local: as long as Flush has not been called and no      *)
(* outside code touched the sink, the sink's header map, status and body   *)
(* are what they were when New ran, whatever Write, WriteHeader and        *)
(* changes of the map returned by Header() have happened.                  *)
(***************************************************************************)
C2_StagingIsLocal ==
    (constructed /\ FlushNeverCalled /\ ~extMut) =>
        /\ sinkHeader = sinkAtNew
        /\ sinkStatus = <<>>
        /\ sinkBody = <<>>

C2_Witness ==
    /\ constructed /\ FlushNeverCalled /\ ~extMut
    /\ localMut /\ header # sinkHeader
    /\ body # <<>>
    /\ statusCode # 0

(***************************************************************************)
(* C3.  A Write on a closed buffer returns (0, ErrBufferClosed) and        *)
(* changes neither the sink nor the cached body.                           *)
(***************************************************************************)
C3_WriteAfterFlush ==
    [][(closed /\ op' = "Write") =>
          /\ retN' = 0
          /\ retErr' = ErrBufferClosed
          /\ UNCHANGED sinkVars
          /\ body' = body]_vars

C3_Witness ==
    /\ op = "Write" /\ retErr = ErrBufferClosed /\ retN = 0
    /\ closed /\ sinkBody = <<1>> /\ body = <<1>>

(***************************************************************************)
(* C4.  A Flush on a closed buffer returns (0, ErrBufferClosed) and leaves *)
(* the sink and the buffer untouched: no header merge, no status call, no  *)
(* body write.                                                             *)
(***************************************************************************)
C4_FlushAfterFlush ==
    [][(closed /\ op' = "Flush") =>
          /\ retN' = 0
          /\ retErr' = ErrBufferClosed
          /\ UNCHANGED sinkVars
          /\ UNCHANGED bufferVars]_vars

\* a rejected Flush that had a header to merge and a status to apply
C4_Witness ==
    /\ op = "Flush" /\ retErr = ErrBufferClosed /\ closed
    /\ \E k \in DOMAIN header : k \notin DOMAIN sinkHeader
    /\ statusCode # 0 /\ sinkStatus = <<>>

(***************************************************************************)
(* C5, as stated: after every successful Flush the sink holds, for every   *)
(* key, the same set of values as the local map.  Stated here for maps     *)
(* whose keys are all in canonical form, where "the values for a key" has  *)
(* one reading only.                                                       *)
(***************************************************************************)
C5_SinkSetEqualsLocal ==
    (FlushSucceeded /\ AllCanonical(header) /\ AllCanonical(sinkHeader)) =>
        \A k \in Keys : ValueSet(sinkHeader, k) = ValueSet(header, k)

(***************************************************************************)
(* C5, amended: a successful Flush leaves the sink, for every key of the   *)
(* local map, with all the local values of that key, and with no value     *)
(* under any key that it did not hold under that key before or that is not *)
(* a local value of that header.  The sink may keep values the local map   *)
(* lacks, so the two need not be set-equal.                                *)
(***************************************************************************)
C5_SinkCoversLocal ==
    [][(op' = "Flush" /\ retErr' = NoErr) =>
          /\ \A k \in DOMAIN header : Range(header[k]) \subseteq LookupSet(sinkHeader', k)
          /\ \A k \in DOMAIN sinkHeader' :
                ValueSet(sinkHeader', k) \subseteq
                    (ValueSet(sinkHeader, k) \cup LocalValuesFor(k))]_vars

\* a successful Flush after which the sink holds the local values of a key
\* and one more
C5_Witness ==
    /\ FlushSucceeded
    /\ \E k \in DOMAIN header \cap DOMAIN sinkHeader :
          /\ CanonicalMIMEHeaderKey(k) = k
          /\ ValueSet(header, k) \subseteq ValueSet(sinkHeader, k)
          /\ ValueSet(header, k) # ValueSet(sinkHeader, k)

(***************************************************************************)
(* C6, as stated: every key the sink holds at the moment of Flush and the  *)
(* local map lacks is absent from the sink after a successful Flush.       *)
(***************************************************************************)
C6_DeletedKeysLeaveSink ==
    [][(op' = "Flush" /\ retErr' = NoErr) =>
          \A k \in (DOMAIN sinkHeader) \ (DOMAIN header) : k \notin DOMAIN sinkHeader']_vars

(***************************************************************************)
(* C7.  After a successful Flush every (key, value) pair of the local map  *)
(* is among the values the sink returns for that key; before Flush, a key  *)
(* the sink lacked at New and that was added locally is still not in the   *)
(* sink.                                                                   *)
(***************************************************************************)
C7_LocalPairsReachSink ==
    /\ FlushSucceeded =>
          \A k \in DOMAIN header : \A v \in Range(header[k]) : v \in LookupSet(sinkHeader, k)
    /\ (constructed /\ FlushNeverCalled /\ ~extMut) =>
          \A k \in DOMAIN header :
              Values(sinkAtNew, k) = <<>> => Values(sinkHeader, k) = <<>>

\* a pair added locally under a key the sink did not have is in the sink
\* after the Flush
C7_Witness ==
    /\ FlushSucceeded /\ ~extMut /\ localMut
    /\ \E k \in DOMAIN header :
          /\ Values(sinkAtNew, k) = <<>>
          /\ header[k] # <<>>
          /\ Range(header[k]) \subseteq LookupSet(sinkHeader, k)

(***************************************************************************)
(* C8, as stated (its closing sentence): when the local map is left        *)
(* untouched after New and no outside code touches the sink, a successful  *)
(* Flush leaves the sink's header map exactly as it was.                   *)
(***************************************************************************)
C8_UntouchedFlushKeepsSink ==
    (FlushSucceeded /\ ~localMut /\ ~extMut) => sinkHeader = sinkAtNew

(***************************************************************************)
(* C9, as stated: once the buffer is closed, every later Write,            *)
(* WriteHeader and Flush is rejected with ErrBufferClosed and changes      *)
(* neither the cached body, nor the status code, nor the closed flag.      *)
(***************************************************************************)
C9_AllMutatorsRejected ==
    [][(closed /\ op' \in {"Write", "WriteHeader", "Flush"}) =>
          /\ retErr' = ErrBufferClosed
          /\ UNCHANGED <<body, statusCode, closed>>]_vars

(***************************************************************************)
(* C9, amended: once the buffer is closed, every later Write and Flush is  *)
(* rejected with (0, ErrBufferClosed) and changes neither the cached body, *)
(* nor the status code, nor the closed flag; WriteHeader is not rejected:  *)
(* it reports no error and may overwrite the stored status code, and it    *)
(* leaves the cached body and the closed flag unchanged.  A change made    *)
(* through Header() is not rejected either: it reaches the local header    *)
(* map and nothing else of the buffer.                                     *)
(***************************************************************************)
C9_WriteAndFlushRejected ==
    [][/\ (closed /\ op' \in {"Write", "Flush"}) =>
             /\ retN' = 0
             /\ retErr' = ErrBufferClosed
             /\ UNCHANGED <<body, statusCode, closed>>
       /\ (closed /\ op' = "WriteHeader") =>
             /\ retErr' = NoErr
             /\ UNCHANGED <<body, closed>>
       /\ (closed /\ op' = "Header") =>
             UNCHANGED <<body, statusCode, closed>>]_vars

\* a WriteHeader after the commit has replaced the status code: no Flush
\* ever saw a code other than 0, and the stored code is not 0
C9_Witness ==
    /\ closed /\ op = "WriteHeader"
    /\ sinkStatus = <<>> /\ statusCode # 0

(***************************************************************************)
(* C10.  The buffer starts open; closed becomes true only in a Flush whose *)
(* sink Write succeeded; closed never returns to false; and a Flush        *)
(* returns a nil error only on an open buffer, so at most one Flush does   *)
(* and the sink accepts at most one body write.                            *)
(***************************************************************************)
AcceptedWrites == Cardinality({i \in DOMAIN sinkWrites : sinkWrites[i]})

C10_ClosedOnceForGood ==
    /\ [](op = "New" => ~closed)
    /\ [](AcceptedWrites <= 1)
    /\ [][/\ (~closed /\ closed') =>
                (op' = "Flush" /\ sinkWrites' = Append(sinkWrites, TRUE))
          /\ closed => closed'
          /\ (op' = "Flush" /\ retErr' = NoErr) =>
                (~closed /\ closed' /\ AcceptedWrites = 0)]_vars

\* a Flush refused by the sink, a Flush that succeeded, and a Flush after it
C10_Witness ==
    /\ closed /\ op = "Flush" /\ retErr = ErrBufferClosed
    /\ Fails >= 1 /\ AcceptedWrites = 1

(***************************************************************************)
(* C11.  Successful Flush: when the sink accepts the body write, Flush     *)
(* marks the buffer closed and returns a nil error with the sink's byte    *)
(* count, which for a sink that takes the whole payload is the length of   *)
(* the payload of the last accepted Write, 0 if there was none; those are  *)
(* the bytes the sink received.                                            *)
(***************************************************************************)
C11_SuccessfulFlush ==
    [][(op' = "Flush" /\ sinkWrites' = Append(sinkWrites, TRUE))
        => /\ closed'
           /\ retErr' = NoErr
           /\ retN' = (IF lastWrite = NoWrite THEN 0 ELSE Len(lastWrite))
           /\ Len(sinkBody') = Len(sinkBody) + retN']_vars

\* a Flush returned the length of a non-empty payload and closed the buffer
C11_Witness ==
    /\ FlushSucceeded /\ closed
    /\ lastWrite # NoWrite /\ retN = Len(lastWrite) /\ retN = 1

(***************************************************************************)
(* C12.  Failed Flush: when the sink refuses the body write, Flush returns *)
(* 0 with the sink's own error and the buffer stays open, so that a Write  *)
(* or a Flush that follows is not turned away with ErrBufferClosed.        *)
(***************************************************************************)
C12_FailedFlush ==
    [][/\ (op' = "Flush" /\ sinkWrites' = Append(sinkWrites, FALSE))
            => (retN' = 0 /\ retErr' = ErrSink /\ ~closed')
       /\ (op = "Flush" /\ retErr = ErrSink /\ op' \in {"Write", "Flush"})
            => (retErr' # ErrBufferClosed /\ (op' = "Write" => retErr' = NoErr))]_vars

\* a Write was accepted after a Flush that the sink refused
C12_Witness ==
    /\ op = "Write" /\ retErr = NoErr /\ ~closed
    /\ Fails = 1 /\ AcceptedWrites = 0

(***************************************************************************)
(* C13.  Status application: a Flush on an open buffer calls the sink's    *)
(* WriteHeader exactly when the code given to the most recent WriteHeader  *)
(* of the buffer is not 0, once and with that code; when WriteHeader was   *)
(* never called or was last called with 0, the sink's WriteHeader is not   *)
(* called.                                                                 *)
(***************************************************************************)
C13_StatusApplied ==
    [][(op' = "Flush" /\ ~closed)
        => sinkStatus' = (IF lastCode # 0
                          THEN Append(sinkStatus, lastCode)
                          ELSE sinkStatus)]_vars

\* the first Flush handed the sink the code of the last WriteHeader
C13_Witness ==
    /\ op = "Flush" /\ Len(sinkWrites) = 1
    /\ lastCode = 404 /\ sinkStatus = <<404>>

(***************************************************************************)
(* C14.  Construction snapshot: New leaves the sink as it was and yields   *)
(* an open buffer with an empty body, status code 0 and a local header map *)
(* equal to the sink's map at that moment; the two maps are independent:   *)
(* a change outside code makes to the sink's map leaves the local map as   *)
(* it was, and a change made through Header() leaves the sink's map as it  *)
(* was.                                                                    *)
(***************************************************************************)
C14_ConstructionSnapshot ==
    [][/\ op' = "New"
            => /\ UNCHANGED sinkVars
               /\ ~closed' /\ body' = <<>> /\ statusCode' = 0
               /\ header' = sinkHeader
       /\ op' = "External" => header' = header
       /\ op' = "Header" => sinkHeader' = sinkHeader]_vars

\* outside code changed the sink's map after New; the local map is still the
\* non-empty snapshot
C14_Witness ==
    /\ constructed /\ op = "External" /\ ~localMut
    /\ header = sinkAtNew /\ header # EmptyMap /\ sinkHeader # header

(***************************************************************************)
(* C15, as stated: of the values outside code added to the sink's map      *)
(* between New and the first Flush, a successful Flush keeps those the     *)
(* local map holds and removes those it does not hold, under a key the     *)
(* local map lacks as well as under a key it has.  Stated here for maps    *)
(* whose keys are all in canonical form.                                   *)
(***************************************************************************)
C15_ExternalKeptIffLocal ==
    [][(/\ op' = "Flush" /\ retErr' = NoErr /\ FlushNeverCalled
        /\ AllCanonical(sinkHeader) /\ AllCanonical(header))
        => \A k \in DOMAIN sinkHeader :
             \A v \in ValueSet(sinkHeader, k) \ ValueSet(sinkAtNew, k) :
                v \in ValueSet(sinkHeader', k) <=> v \in ValueSet(header, k)]_vars

\* the sink's map holds some spelling of the canonical key that the local map
\* lacks, the canonical key itself or another spelling
KeyDropped(canonical) ==
    \E s \in DOMAIN sinkHeader :
        CanonicalMIMEHeaderKey(s) = canonical /\ s \notin DOMAIN header

(***************************************************************************)
(* C15, amended: Flush removes values from the sink only by deleting the   *)
(* entry of a whole canonical key, which it does when the sink holds some  *)
(* spelling of that key that the local map lacks; it then adds the local   *)
(* values of that header back.  So, of the values outside code added to    *)
(* the sink's map between New and the first Flush, a successful Flush      *)
(* keeps a value under a canonical key exactly when the entry is not       *)
(* deleted or the local map holds the value for that header; it keeps      *)
(* every value under a key that is not in canonical form; and every value  *)
(* the local map holds for the header is found by the http.Header lookup.  *)
(***************************************************************************)
C15_ExternalKeptOrKeyDropped ==
    [][(op' = "Flush" /\ retErr' = NoErr /\ FlushNeverCalled)
        => \A k \in DOMAIN sinkHeader :
             \A v \in ValueSet(sinkHeader, k) \ ValueSet(sinkAtNew, k) :
                /\ k = CanonicalMIMEHeaderKey(k)
                      => (v \in ValueSet(sinkHeader', k)
                            <=> (~KeyDropped(k) \/ v \in LocalValuesFor(k)))
                /\ k # CanonicalMIMEHeaderKey(k)
                      => v \in ValueSet(sinkHeader', k)
                /\ v \in LocalValuesFor(CanonicalMIMEHeaderKey(k))
                      => v \in LookupSet(sinkHeader', k)]_vars

\* after the first Flush the sink still holds, under a key the local map has,
\* a value that outside code added and the local map lacks
C15_Witness ==
    /\ FlushSucceeded /\ Len(sinkWrites) = 1 /\ extMut
    /\ \E k \in (DOMAIN sinkHeader) \cap (DOMAIN header) :
          \E v \in ValueSet(sinkHeader, k) \ ValueSet(sinkAtNew, k) :
             v \notin LocalValuesFor(CanonicalMIMEHeaderKey(k))

(***************************************************************************)
(* C16.  Partial commit: a Flush whose body write the sink refuses leaves  *)
(* the buffer open and the sink without the body, but with the header      *)
(* merge and the status call in place: every local value is found in the   *)
(* sink under its header, and a non-zero status code has been handed to    *)
(* the sink.                                                               *)
(***************************************************************************)
C16_PartialCommit ==
    [][(op' = "Flush" /\ retErr' = ErrSink)
        => /\ ~closed'
           /\ sinkBody' = sinkBody
           /\ \A k \in DOMAIN header : Range(header[k]) \subseteq LookupSet(sinkHeader', k)
           /\ statusCode # 0 => sinkStatus' = Append(sinkStatus, statusCode)]_vars

\* the buffer is open after a refused Flush, and the sink, which nobody else
\* touched, has a changed header map and the staged status code
C16_Witness ==
    /\ op = "Flush" /\ retErr = ErrSink /\ ~closed
    /\ ~extMut /\ sinkHeader # sinkAtNew
    /\ statusCode # 0 /\ sinkStatus = <<statusCode>> /\ sinkBody = <<>>

(***************************************************************************)
(* C17.  Order of the sink effects of one Flush on an open buffer: first   *)
(* the sink's header map is taken and reconciled, then WriteHeader is      *)
(* called if the status code is not 0, then Write is called, once and      *)
(* last, with the body, also when the body is empty; the header map is not *)
(* taken again after the status call or the body write.                    *)
(***************************************************************************)
C17_OrderOfSinkEffects ==
    (op = "Flush" /\ retErr # ErrBufferClosed) =>
        LET n == Len(calls) IN
        /\ n >= 2
        /\ calls[1] = SinkCall("Header", <<>>)
        /\ calls[n] = SinkCall("Write", body)
        /\ \A i \in 1..(n - 1) : calls[i][1] # "Write"
        /\ \A i \in 2..n : calls[i][1] # "Header"
        /\ {i \in 1..n : calls[i][1] = "WriteHeader"} = (IF statusCode # 0 THEN {2} ELSE {})
        /\ statusCode # 0 => calls[2] = SinkCall("WriteHeader", <<statusCode>>)
        /\ \A k \in DOMAIN header : Range(header[k]) \subseteq LookupSet(sinkHeader, k)

\* a Flush with a status code and a body that was never written: header map,
\* status, then one write of the empty body
C17_Witness ==
    /\ FlushSucceeded /\ lastWrite = NoWrite /\ localMut
    /\ calls = <<SinkCall("Header", <<>>), SinkCall("WriteHeader", <<200>>),
                 SinkCall("Write", <<>>)>>

\* s is an initial segment of t
IsPrefix(s, t) == Len(s) <= Len(t) /\ \A i \in DOMAIN s : t[i] = s[i]

(***************************************************************************)
(* C18, as stated: for every key that both the sink's map and the local    *)
(* map hold when Flush starts on an open buffer, the sink's sequence of    *)
(* values under that key before the Flush is an initial segment of its     *)
(* sequence under that key after the Flush: no value is removed or moved,  *)
(* new values come at the end.                                             *)
(***************************************************************************)
C18_SinkValuesArePrefix ==
    [][(op' = "Flush" /\ ~closed) =>
          \A k \in (DOMAIN header) \cap (DOMAIN sinkHeader) :
             IsPrefix(sinkHeader[k], MapGet(sinkHeader', k))]_vars

\* the map holds two keys that differ in letter case only
HasCaseTwins(h) ==
    \E k1, k2 \in DOMAIN h :
        k1 # k2 /\ CanonicalMIMEHeaderKey(k1) = CanonicalMIMEHeaderKey(k2)

(***************************************************************************)
(* C19, as stated: after a successful Flush every key of the sink's map    *)
(* is, up to letter case, a key of the local map, and the sink's map holds *)
(* two keys that differ in letter case only if the local map does.         *)
(***************************************************************************)
C19_KeysCaseConsistent ==
    FlushSucceeded =>
        /\ \A k \in DOMAIN sinkHeader :
              \E l \in DOMAIN header :
                 CanonicalMIMEHeaderKey(l) = CanonicalMIMEHeaderKey(k)
        /\ HasCaseTwins(sinkHeader) => HasCaseTwins(header)

(***************************************************************************)
(* C20, as stated: a Flush, accepted, refused by the sink or turned away   *)
(* as closed, leaves the local header map, the body and the status code of *)
(* the buffer as they were, and never reopens the buffer; and a Flush that *)
(* directly follows a Flush the sink refused makes the same calls on the   *)
(* sink, with the same status code and the same body, and leaves the       *)
(* sink's header map as the first attempt left it.                         *)
(***************************************************************************)
C20_FlushFrame ==
    [][/\ op' = "Flush"
            => /\ header' = header /\ body' = body /\ statusCode' = statusCode
               /\ closed => closed'
       /\ (op = "Flush" /\ retErr = ErrSink /\ op' = "Flush")
            => /\ calls' = calls
               /\ sinkHeader' = sinkHeader]_vars

====
